---- MODULE Spec2Model ----
(***************************************************************************)
(* Pointer handlers of the piano-roll note editor                          *)
(* (src/src/note-mouse-handler.js): PencilMouseHandler and                 *)
(* SelectionMouseHandler, with the quantizer, the Rect geometry, the       *)
(* listener and the display objects they call modelled beside them.        *)
(* Coordinates are integer pixels.                                         *)
(***************************************************************************)
EXTENDS Integers, Sequences, FiniteSets, TLC

VARIABLES
    dragPosition,   \* PencilMouseHandler.dragPosition: None (undefined) or [x, y, type]
    note,           \* the NoteView the pencil works on: [x, y, width, height]
    cursor,         \* canvas.parentNode.style.cursor
    downRegion,     \* history: the region under the pointer at the last onMouseDownNote
    dragRight,      \* history: the note's right edge (x + width) at the last onMouseDownNote
    selectionView,  \* SelectionView: [x, y, width, height, fixed, visible]
    selectedNotes,  \* SelectionMouseHandler.selectedNotes (ids of the notes)
    isMouseDown,    \* SelectionMouseHandler.isMouseDown
    start,          \* SelectionMouseHandler.start: None or [x, y]
    dragOffset,     \* SelectionMouseHandler.dragOffset: None or [x, y]
    notes,          \* listener.notes: the notes' points [x, y], in the listener's order
    event,          \* the event the last handler call received: None or [op, p]
    held,           \* host: the selection tool was sent a pointer-down and not yet its pointer-up
    gesture,        \* history of the selection gesture since its pointer-down
    lastSelect,     \* history: the argument of the latest onSelectNotes, None before the first
    emitted,        \* the intents the last handler call sent to the listener
    thrown,         \* the last handler call ended in an exception
    classified,     \* last getDragPositionType call on its own: None or [localX, noteWidth, type]
    mouseMode,      \* PianoRollStage: the mouseMode that selects the handler
    button          \* the pointer's button is down

pencilVars == <<dragPosition, note, cursor, downRegion, dragRight>>
selectionVars == <<selectionView, selectedNotes, isMouseDown, start, dragOffset, notes,
                   held, gesture, lastSelect>>
vars == <<dragPosition, note, cursor, downRegion, dragRight, selectionView, selectedNotes, isMouseDown,
          start, dragOffset, notes, held, gesture, lastSelect, emitted, thrown, classified, event,
          mouseMode, button>>
hostVars == <<mouseMode, button>>

\* JavaScript's undefined, as a record so that it compares with the records it stands in for
None == [undefined |-> TRUE]

\* ------------------------------------------------------------------ bounds
\* pointer columns are StepPX apart, pointer rows StepPY apart
MaxCol == 4
MaxRow == 1
StepPX == 35
StepPY == 9
\* the window the modelled note stays in (the guards drop moves leaving it)
MinExtent == 60
MaxExtent == 140
\* the widths the modelled note takes, negative ones included
MaxWidth == 40
\* the selection tool's pointer columns and rows, SelStepX and SelStepY apart
MaxSelCol == 2
MaxSelRow == 1
SelStepX == 17
SelStepY == 7
\* the window the listener's notes stay in while the selection tool moves them
MaxNoteExtent == 60
\* widths and offsets tried on getDragPositionType alone
MaxNoteWidth == 40

\* ------------------------------------------------------------------ quantizer
unitX == 10
unitY == 12

\* Math.round(v / u) * u, with JavaScript's round-half-up
RoundTo(v, u) == ((2 * v + u) \div (2 * u)) * u
\* Math.floor(v / u) * u
FloorTo(v, u) == (v \div u) * u

roundX(v) == RoundTo(v, unitX)
roundY(v) == RoundTo(v, unitY)
floorX(v) == FloorTo(v, unitX)
floorY(v) == FloorTo(v, unitY)

Min(a, b) == IF a <= b THEN a ELSE b
Abs(a) == IF a >= 0 THEN a ELSE 0 - a

\* ------------------------------------------------------------------ pointer
ExampleXs == {23, 102, 130}
PointerXs == {StepPX * i : i \in 0..MaxCol} \cup ExampleXs
ExampleYs == {5}
PointerYs == {StepPY * j : j \in 0..MaxRow} \cup ExampleYs
\* container.globalToLocal(e.stageX, e.stageY) of the events the host can send
Points == [x : PointerXs, y : PointerYs]

\* the positions tried on the selection tool
SelectionPoints == [x : {SelStepX * i : i \in 0..MaxSelCol}, y : {SelStepY * j : j \in 0..MaxSelRow}]

\* ------------------------------------------------------------------ pencil
LEFT_EDGE == 0
CENTER == 1
RIGHT_EDGE == 2

\* edgeSize = Math.min(noteWidth / 3, 8); v <= edgeSize without rounding the division
LeEdgeSize(v, noteWidth) == 3 * v <= noteWidth /\ v <= 8

\* getDragPositionType with Math.max where the code has Math.min
getDragPositionType_max(localX, noteWidth) ==
    IF 3 * localX <= noteWidth \/ localX <= 8 THEN LEFT_EDGE
    ELSE IF 3 * (noteWidth - localX) <= noteWidth \/ noteWidth - localX <= 8 THEN RIGHT_EDGE
    ELSE CENTER

\* getDragPositionType testing the right edge before the left edge
getDragPositionType_rightFirst(localX, noteWidth) ==
    IF LeEdgeSize(noteWidth - localX, noteWidth) THEN RIGHT_EDGE
    ELSE IF LeEdgeSize(localX, noteWidth) THEN LEFT_EDGE
    ELSE CENTER

getDragPositionType(localX, noteWidth) ==
    IF LeEdgeSize(localX, noteWidth) THEN LEFT_EDGE
    ELSE IF LeEdgeSize(noteWidth - localX, noteWidth) THEN RIGHT_EDGE
    ELSE CENTER

\* the display list's hit test: the pointer is on the note
HitNote(p) ==
    /\ note.x <= p.x /\ p.x <= note.x + note.width
    /\ note.y <= p.y /\ p.y <= note.y + note.height

\* the note's globalToLocal / the event's localX, localY
NoteLocal(p) == [x |-> p.x - note.x, y |-> p.y - note.y]

Intent(name, arg) == [intent |-> name, arg |-> arg]

InWindow(b) ==
    /\ MinExtent <= b.x /\ b.x <= MaxExtent
    /\ 0 <= b.y /\ b.y <= MaxExtent
    /\ Abs(b.width) <= MaxWidth

onMouseDownNote(p) ==
    /\ event' = [op |-> "onMouseDownNote", p |-> p]
    /\ HitNote(p)
    /\ dragPosition' = [x |-> NoteLocal(p).x, y |-> NoteLocal(p).y,
                        type |-> getDragPositionType(NoteLocal(p).x, note.width)]
    /\ downRegion' = getDragPositionType(NoteLocal(p).x, note.width)
    /\ dragRight' = note.x + note.width
    /\ emitted' = <<>>
    /\ thrown' = FALSE
    /\ UNCHANGED <<note, cursor, classified>>
    /\ UNCHANGED selectionVars
    /\ button' = TRUE
    /\ UNCHANGED mouseMode

\* onMouseDown with the position rounded to the nearest grid line
PencilOnMouseDown_round(p) ==
    /\ event' = [op |-> "PencilOnMouseDown", p |-> p]
    /\ emitted' = IF ~HitNote(p)
                  THEN <<Intent("onCreateNote",
                                [x |-> roundX(p.x), y |-> roundY(p.y), width |-> unitX])>>
                  ELSE <<>>
    /\ thrown' = FALSE
    /\ UNCHANGED <<classified>>
    /\ UNCHANGED pencilVars
    /\ UNCHANGED selectionVars
    /\ button' = TRUE
    /\ UNCHANGED mouseMode

\* onMouseDown of PencilMouseHandler; e.target is the container unless a note is hit
PencilOnMouseDown(p) ==
    /\ event' = [op |-> "PencilOnMouseDown", p |-> p]
    /\ emitted' = IF ~HitNote(p)
                  THEN <<Intent("onCreateNote",
                                [x |-> floorX(p.x), y |-> floorY(p.y), width |-> unitX])>>
                  ELSE <<>>
    /\ thrown' = FALSE
    /\ UNCHANGED <<classified>>
    /\ UNCHANGED pencilVars
    /\ UNCHANGED selectionVars
    /\ button' = TRUE
    /\ UNCHANGED mouseMode

\* onPressMoveNote classifying the live pointer position instead of using the stored type
PressMoveBounds_live(p) ==
    LET qx == roundX(p.x)
        type == getDragPositionType(NoteLocal(p).x, note.width)
    IN  IF type = LEFT_EDGE
        THEN [note EXCEPT !.width = note.width + note.x - qx, !.x = qx]
        ELSE IF type = RIGHT_EDGE
        THEN [note EXCEPT !.width = qx - note.x]
        ELSE [note EXCEPT !.x = roundX(p.x - dragPosition.x),
                          !.y = roundY(p.y - dragPosition.y)]

\* onPressMoveNote assigning bounds.x before it computes the LeftEdge width
PressMoveBounds_xFirst(p) ==
    LET qx == roundX(p.x)
        type == dragPosition.type
    IN  IF type = LEFT_EDGE
        THEN [note EXCEPT !.width = note.width + qx - qx, !.x = qx]
        ELSE IF type = RIGHT_EDGE
        THEN [note EXCEPT !.width = qx - note.x]
        ELSE [note EXCEPT !.x = roundX(p.x - dragPosition.x),
                          !.y = roundY(p.y - dragPosition.y)]

\* onPressMoveNote taking the RightEdge width from the pointer alone
PressMoveBounds_rightAbs(p) ==
    LET qx == roundX(p.x)
        type == dragPosition.type
    IN  IF type = LEFT_EDGE
        THEN [note EXCEPT !.width = note.width + note.x - qx, !.x = qx]
        ELSE IF type = RIGHT_EDGE
        THEN [note EXCEPT !.width = qx]
        ELSE [note EXCEPT !.x = roundX(p.x - dragPosition.x),
                          !.y = roundY(p.y - dragPosition.y)]

\* onPressMoveNote centring the note's corner on the pointer, without the stored offsets
PressMoveBounds_noOffset(p) ==
    LET qx == roundX(p.x)
        type == dragPosition.type
    IN  IF type = LEFT_EDGE
        THEN [note EXCEPT !.width = note.width + note.x - qx, !.x = qx]
        ELSE IF type = RIGHT_EDGE
        THEN [note EXCEPT !.width = qx - note.x]
        ELSE [note EXCEPT !.x = roundX(p.x), !.y = roundY(p.y)]

\* the bounds onPressMoveNote computes, lines 38-62
PressMoveBounds(p) ==
    LET qx == roundX(p.x)
        type == dragPosition.type
    IN  IF type = LEFT_EDGE
        THEN [note EXCEPT !.width = note.width + note.x - qx, !.x = qx]
        ELSE IF type = RIGHT_EDGE
        THEN [note EXCEPT !.width = qx - note.x]
        ELSE [note EXCEPT !.x = roundX(p.x - dragPosition.x),
                          !.y = roundY(p.y - dragPosition.y)]

\* listener.onResizeNote(noteId, bounds): the listener gives the note the bounds
onResizeNote(bounds) == note' = bounds

onPressMoveNote(p) ==
    /\ event' = [op |-> "onPressMoveNote", p |-> p]
    /\ IF dragPosition = None
       THEN \* this.dragPosition.type of undefined: TypeError
            /\ thrown' = TRUE
            /\ emitted' = <<>>
            /\ UNCHANGED pencilVars
       ELSE /\ InWindow(PressMoveBounds(p))
            /\ emitted' = <<Intent("onResizeNote", PressMoveBounds(p))>>
            /\ onResizeNote(PressMoveBounds(p))
            /\ thrown' = FALSE
            /\ UNCHANGED <<dragPosition, cursor, downRegion, dragRight>>
    /\ UNCHANGED <<classified>>
    /\ UNCHANGED selectionVars
    /\ UNCHANGED hostVars

\* the cursor onMouseMove of PencilMouseHandler chooses, lines 75-91
HoverCursor(p) ==
    IF HitNote(p)
    THEN IF getDragPositionType(NoteLocal(p).x, note.width) \in {LEFT_EDGE, RIGHT_EDGE}
         THEN "w-resize"
         ELSE "move"
    ELSE "default"

PencilOnMouseMove(p) ==
    /\ event' = [op |-> "PencilOnMouseMove", p |-> p]
    /\ cursor' = HoverCursor(p)
    /\ emitted' = <<>>
    /\ thrown' = FALSE
    /\ UNCHANGED <<dragPosition, note, downRegion, dragRight, classified>>
    /\ UNCHANGED selectionVars
    /\ UNCHANGED hostVars

InitNotes == [x : {70, 100}, y : {0}, width : {10, 20, 40}, height : {unitY}]

\* the note collections the listener starts with
NoteSets == {<<>>, <<[x |-> 20, y |-> 0], [x |-> 40, y |-> 12]>>}
InitSelection ==
    /\ selectionView = [x |-> 0, y |-> 0, width |-> 0, height |-> 0,
                        fixed |-> FALSE, visible |-> FALSE]
    /\ selectedNotes = {}
    /\ isMouseDown = FALSE
    /\ start = None
    /\ dragOffset = None
    /\ notes \in NoteSets
    /\ held = FALSE
    /\ gesture = None
    /\ lastSelect = None

InitPencil ==
    /\ dragPosition = None
    /\ note \in InitNotes
    /\ cursor = "default"
    /\ downRegion = CENTER
    /\ dragRight = 0

Init ==
    /\ InitPencil
    /\ InitSelection
    /\ emitted = <<>>
    /\ thrown = FALSE
    /\ classified = None
    /\ event = None
    /\ mouseMode \in {"pencil", "selection"}
    /\ button = FALSE

\* the selection tool alone: the pencil works on one fixed note
SelectionInit ==
    /\ Init
    /\ note = [x |-> 100, y |-> 0, width |-> 40, height |-> unitY]
    /\ mouseMode = "selection"

\* the pencil tool alone: the selection tool's listener holds no notes
PencilInit == Init /\ notes = <<>> /\ mouseMode = "pencil"

PencilNext ==
    \E p \in Points :
        \/ onMouseDownNote(p)
        \/ PencilOnMouseDown(p)
        \/ onPressMoveNote(p)
        \/ PencilOnMouseMove(p)

SpecPencil == PencilInit /\ [][PencilNext]_vars

\* a pointer-up while the pencil is the tool: PencilMouseHandler declares no onMouseUp,
\* so the host's call mouseHandler.onMouseUp(...) finds no function (TypeError) and no
\* line of the class runs
PencilOnMouseUp ==
    /\ event' = [op |-> "PencilOnMouseUp"]
    /\ thrown' = TRUE
    /\ emitted' = <<>>
    /\ UNCHANGED <<classified>>
    /\ UNCHANGED pencilVars
    /\ UNCHANGED selectionVars
    /\ button' = FALSE
    /\ UNCHANGED mouseMode

\* the pencil's gestures with their pointer-ups
PencilGestureNext ==
    \/ PencilNext
    \/ PencilOnMouseUp

SpecPencilGesture == PencilInit /\ [][PencilGestureNext]_vars

\* ------------------------------------------------------------------ classifier alone
Classify(localX, noteWidth) ==
    /\ classified' = [localX |-> localX, noteWidth |-> noteWidth,
                      type |-> getDragPositionType(localX, noteWidth)]
    /\ UNCHANGED <<emitted, thrown, event>>
    /\ UNCHANGED pencilVars
    /\ UNCHANGED selectionVars
    /\ UNCHANGED hostVars

ClassifyNext ==
    \E w \in 0..MaxNoteWidth : \E o \in 0..w : Classify(o, w)

ClassifyInit == SelectionInit /\ notes = <<>>

SpecClassify == ClassifyInit /\ [][ClassifyNext]_vars

\* ------------------------------------------------------------------ selection
\* Rect.containsPoint
containsPoint(r, p) ==
    /\ r.x <= p.x /\ p.x <= r.x + r.width
    /\ r.y <= p.y /\ p.y <= r.y + r.height

\* Rect.fromPoints
fromPoints(a, b) ==
    [x |-> Min(a.x, b.x), y |-> Min(a.y, b.y),
     width |-> Abs(a.x - b.x), height |-> Abs(a.y - b.y)]

\* get selectionRect
selectionRect == [x |-> selectionView.x, y |-> selectionView.y,
                  width |-> selectionView.width, height |-> selectionView.height]

\* set selectionRect, on the view v
setSelectionRect(v, rect) ==
    [v EXCEPT !.x = rect.x, !.y = rect.y, !.width = rect.width, !.height = rect.height]

\* a || b on numbers
OrElse(a, b) == IF a # 0 THEN a ELSE b

\* this.isMouseMoved: no line of the class assigns it
isMouseMoved == None
Truthy(v) == v # None /\ v # FALSE

\* history: what the gesture has sent to the listener since its pointer-down
\* (selects counts to 2, moves and clicks to 1)
Count(g, e) ==
    IF g = None THEN g
    ELSE [g EXCEPT
            !.selects = IF e # <<>> /\ e[1].intent = "onSelectNotes" THEN Min(@ + 1, 2) ELSE @,
            !.moves = IF e # <<>> /\ e[1].intent = "onMoveNotes" THEN 1 ELSE @,
            !.clicks = IF e # <<>> /\ e[1].intent = "onClickNotes" THEN 1 ELSE @]

\* history: the latest onSelectNotes argument after the handler call that emitted e
Selected(last, e) ==
    IF e # <<>> /\ e[1].intent = "onSelectNotes" THEN e[1].arg ELSE last

\* listener.onMoveNotes(ids, delta): the listener moves the notes
onMoveNotes(ids, delta) ==
    notes' = [i \in DOMAIN notes |->
                 IF i \in ids
                 THEN [x |-> notes[i].x + delta.x, y |-> notes[i].y + delta.y]
                 ELSE notes[i]]

NotesInWindow(ns) ==
    \A i \in DOMAIN ns : /\ 0 <= ns[i].x /\ ns[i].x <= MaxNoteExtent
                         /\ 0 <= ns[i].y /\ ns[i].y <= MaxNoteExtent

\* onMouseDown resetting the rectangle outside it but leaving the fixed flag as it is
SelectionOnMouseDown_keepFixed(p) ==
    LET clicked == containsPoint(selectionRect, p)
        e == IF clicked THEN <<>> ELSE <<Intent("onSelectNotes", [ids |-> {}])>>
    IN  /\ ~held
        /\ held' = TRUE
        /\ event' = [op |-> "SelectionOnMouseDown", p |-> p]
        /\ isMouseDown' = TRUE
        /\ start' = p
        /\ selectionView' =
               IF clicked THEN selectionView
               ELSE [x |-> p.x, y |-> p.y, width |-> 0, height |-> 0,
                     fixed |-> selectionView.fixed, visible |-> FALSE]
        /\ emitted' = e
        /\ dragOffset' = [x |-> p.x - selectionView'.x, y |-> p.y - selectionView'.y]
        /\ gesture' = Count([selects |-> 0, moves |-> 0, clicks |-> 0, pointerMoves |-> 0], e)
        /\ lastSelect' = Selected(lastSelect, e)
        /\ thrown' = FALSE
        /\ UNCHANGED <<selectedNotes, notes, classified>>
        /\ UNCHANGED pencilVars
        /\ button' = TRUE
        /\ UNCHANGED mouseMode

\* onMouseDown recording dragOffset against the rectangle as it was before the reset
SelectionOnMouseDown_offsetFirst(p) ==
    LET clicked == containsPoint(selectionRect, p)
        e == IF clicked THEN <<>> ELSE <<Intent("onSelectNotes", [ids |-> {}])>>
    IN  /\ ~held
        /\ held' = TRUE
        /\ event' = [op |-> "SelectionOnMouseDown", p |-> p]
        /\ isMouseDown' = TRUE
        /\ start' = p
        /\ selectionView' =
               IF clicked THEN selectionView
               ELSE [x |-> p.x, y |-> p.y, width |-> 0, height |-> 0,
                     fixed |-> FALSE, visible |-> FALSE]
        /\ emitted' = e
        /\ dragOffset' = [x |-> p.x - selectionView.x, y |-> p.y - selectionView.y]
        /\ gesture' = Count([selects |-> 0, moves |-> 0, clicks |-> 0, pointerMoves |-> 0], e)
        /\ lastSelect' = Selected(lastSelect, e)
        /\ thrown' = FALSE
        /\ UNCHANGED <<selectedNotes, notes, classified>>
        /\ UNCHANGED pencilVars
        /\ button' = TRUE
        /\ UNCHANGED mouseMode

SelectionOnMouseDown(p) ==
    LET clicked == containsPoint(selectionRect, p)
        e == IF clicked THEN <<>> ELSE <<Intent("onSelectNotes", [ids |-> {}])>>
    IN  /\ ~held
        /\ held' = TRUE
        /\ event' = [op |-> "SelectionOnMouseDown", p |-> p]
        /\ isMouseDown' = TRUE
        /\ start' = p
        /\ selectionView' =
               IF clicked THEN selectionView
               ELSE [x |-> p.x, y |-> p.y, width |-> 0, height |-> 0,
                     fixed |-> FALSE, visible |-> FALSE]
        /\ emitted' = e
        /\ dragOffset' = [x |-> p.x - selectionView'.x, y |-> p.y - selectionView'.y]
        /\ gesture' = Count([selects |-> 0, moves |-> 0, clicks |-> 0, pointerMoves |-> 0], e)
        /\ lastSelect' = Selected(lastSelect, e)
        /\ thrown' = FALSE
        /\ UNCHANGED <<selectedNotes, notes, classified>>
        /\ UNCHANGED pencilVars
        /\ button' = TRUE
        /\ UNCHANGED mouseMode

\* the drag target taken from the pointer alone, without the recorded offset
MoveTarget_noOffset(p) ==
    [x |-> roundX(p.x), y |-> roundY(p.y)]

\* the fixed rectangle dragged: lines 160-168
MoveTarget(p) ==
    [x |-> roundX(p.x - dragOffset.x), y |-> roundY(p.y - dragOffset.y)]

\* the marquee without the || fallback of lines 174-175
MarqueeBounds_noFallback(p) ==
    LET rect == fromPoints(start, p)
        bx == roundX(rect.x)
        by == roundY(rect.y)
    IN  [x |-> bx, y |-> by,
         width |-> roundX(rect.x + rect.width) - bx,
         height |-> roundY(rect.y + rect.height) - by]

\* the marquee resized: lines 171-175
MarqueeBounds(p) ==
    LET rect == fromPoints(start, p)
        bx == roundX(rect.x)
        by == roundY(rect.y)
    IN  [x |-> bx, y |-> by,
         width |-> OrElse(roundX(rect.x + rect.width) - bx, unitX),
         height |-> OrElse(roundY(rect.y + rect.height) - by, unitY)]

SelectionOnMouseMove(p) ==
    /\ event' = [op |-> "SelectionOnMouseMove", p |-> p]
    /\ thrown' = FALSE
    /\ IF ~isMouseDown
       THEN /\ emitted' = <<>>
            /\ UNCHANGED <<selectionView, notes, gesture>>
       ELSE IF selectionView.fixed
       THEN LET delta == [x |-> MoveTarget(p).x - selectionRect.x,
                          y |-> MoveTarget(p).y - selectionRect.y]
                e == <<Intent("onMoveNotes", [ids |-> selectedNotes, delta |-> delta])>>
            IN  /\ emitted' = e
                /\ onMoveNotes(selectedNotes, delta)
                /\ NotesInWindow(notes')
                /\ selectionView' = [selectionView EXCEPT !.visible = TRUE,
                                        !.x = MoveTarget(p).x, !.y = MoveTarget(p).y]
                /\ gesture' = IF held
                              THEN [Count(gesture, e) EXCEPT !.pointerMoves = 1]
                              ELSE gesture
       ELSE /\ emitted' = <<>>
            /\ selectionView' = setSelectionRect([selectionView EXCEPT !.visible = TRUE],
                                                 MarqueeBounds(p))
            /\ gesture' = IF held /\ gesture # None
                          THEN [gesture EXCEPT !.pointerMoves = 1]
                          ELSE gesture
            /\ UNCHANGED notes
    /\ UNCHANGED <<selectedNotes, isMouseDown, start, dragOffset, held, lastSelect, classified>>
    /\ UNCHANGED pencilVars
    /\ UNCHANGED hostVars

\* the identifier `selection` of line 183: nothing in the class or the file declares it
selection == None

\* listener.notes.filter(n => new Rect(selection).containsPoint(n)), line 183; the
\* callback runs once per note, and evaluating `selection` throws ReferenceError
FilterNotes ==
    IF notes # <<>> /\ selection = None
    THEN [threw |-> TRUE, value |-> {}]
    ELSE [threw |-> FALSE,
          value |-> {i \in DOMAIN notes : containsPoint(selection, notes[i])}]

\* onMouseUp showing the click branch's intent as a new selection
SelectionOnMouseUp_reselect ==
    /\ event' = [op |-> "SelectionOnMouseUp"]
    /\ held' = FALSE
    /\ IF ~selectionView.fixed
       THEN /\ selectionView' = [selectionView EXCEPT !.fixed = TRUE]
            /\ IF FilterNotes.threw
               THEN /\ thrown' = TRUE
                    /\ emitted' = <<>>
                    /\ UNCHANGED <<selectedNotes, isMouseDown>>
               ELSE /\ thrown' = FALSE
                    /\ selectedNotes' = FilterNotes.value
                    /\ emitted' = <<Intent("onSelectNotes", [ids |-> selectedNotes'])>>
                    /\ isMouseDown' = FALSE
       ELSE /\ thrown' = FALSE
            /\ emitted' = <<Intent("onSelectNotes", [ids |-> selectedNotes])>>
            /\ isMouseDown' = FALSE
            /\ UNCHANGED <<selectionView, selectedNotes>>
    /\ gesture' = IF held THEN Count(gesture, emitted') ELSE gesture
    /\ lastSelect' = Selected(lastSelect, emitted')
    /\ UNCHANGED <<start, dragOffset, notes, classified>>
    /\ UNCHANGED pencilVars
    /\ button' = FALSE
    /\ UNCHANGED mouseMode

\* onMouseUp clicking every note of the listener instead of the selected ones
SelectionOnMouseUp_clickAll ==
    /\ event' = [op |-> "SelectionOnMouseUp"]
    /\ held' = FALSE
    /\ IF ~selectionView.fixed
       THEN /\ selectionView' = [selectionView EXCEPT !.fixed = TRUE]
            /\ IF FilterNotes.threw
               THEN /\ thrown' = TRUE
                    /\ emitted' = <<>>
                    /\ UNCHANGED <<selectedNotes, isMouseDown>>
               ELSE /\ thrown' = FALSE
                    /\ selectedNotes' = FilterNotes.value
                    /\ emitted' = <<Intent("onSelectNotes", [ids |-> selectedNotes'])>>
                    /\ isMouseDown' = FALSE
       ELSE /\ thrown' = FALSE
            /\ emitted' = <<Intent("onClickNotes", [ids |-> DOMAIN notes, e |-> event'])>>
            /\ isMouseDown' = FALSE
            /\ UNCHANGED <<selectionView, selectedNotes>>
    /\ gesture' = IF held THEN Count(gesture, emitted') ELSE gesture
    /\ lastSelect' = Selected(lastSelect, emitted')
    /\ UNCHANGED <<start, dragOffset, notes, classified>>
    /\ UNCHANGED pencilVars
    /\ button' = FALSE
    /\ UNCHANGED mouseMode

\* onMouseUp; the handler reads nothing of the event and only forwards it
SelectionOnMouseUp ==
    /\ event' = [op |-> "SelectionOnMouseUp"]
    /\ held' = FALSE
    /\ IF ~selectionView.fixed
       THEN /\ selectionView' = [selectionView EXCEPT !.fixed = TRUE]
            /\ IF FilterNotes.threw
               THEN \* the exception leaves onMouseUp after line 182
                    /\ thrown' = TRUE
                    /\ emitted' = <<>>
                    /\ UNCHANGED <<selectedNotes, isMouseDown>>
               ELSE /\ thrown' = FALSE
                    /\ selectedNotes' = FilterNotes.value
                    /\ emitted' = <<Intent("onSelectNotes", [ids |-> selectedNotes'])>>
                    /\ isMouseDown' = FALSE
       ELSE /\ thrown' = FALSE
            /\ emitted' = IF ~Truthy(isMouseMoved)
                          THEN <<Intent("onClickNotes", [ids |-> selectedNotes, e |-> event'])>>
                          ELSE <<>>
            /\ isMouseDown' = FALSE
            /\ UNCHANGED <<selectionView, selectedNotes>>
    /\ gesture' = IF held THEN Count(gesture, emitted') ELSE gesture
    /\ lastSelect' = Selected(lastSelect, emitted')
    /\ UNCHANGED <<start, dragOffset, notes, classified>>
    /\ UNCHANGED pencilVars
    /\ button' = FALSE
    /\ UNCHANGED mouseMode

\* the host releases the button it holds
HeldMouseUp == held /\ SelectionOnMouseUp
\* a release reaches the canvas though the press never did
StrayMouseUp == ~held /\ SelectionOnMouseUp

\* gestures in order: down, moves, up; the canvas also sees the moves between gestures
SelectionNext ==
    \/ \E p \in SelectionPoints :
        \/ SelectionOnMouseDown(p)
        \/ SelectionOnMouseMove(p)
    \/ HeldMouseUp

StrayNext ==
    \/ SelectionNext
    \/ StrayMouseUp

SpecSelection == SelectionInit /\ [][SelectionNext]_vars

SpecSelectionStray == SelectionInit /\ [][StrayNext]_vars

\* ------------------------------------------------------------------ host
\* PianoRollStage: mouseHandler is the handler of the current mouseMode, and each of
\* handleMouseDown, handleMouseMove, handleMouseUp calls the method of that handler.
\* (A press sent to the selection tool while it still awaits a release is left out.)
mouseHandler == IF mouseMode = "pencil" THEN "pencilMouseHandler" ELSE "selectionMouseHandler"

\* the mode changes between two events
SetMouseMode(m) ==
    /\ m # mouseMode
    /\ mouseMode' = m
    /\ UNCHANGED <<emitted, thrown, classified, event, button>>
    /\ UNCHANGED pencilVars
    /\ UNCHANGED selectionVars

handleMouseDown(p) ==
    /\ ~button
    /\ IF mouseHandler = "pencilMouseHandler"
       THEN PencilOnMouseDown(p)
       ELSE SelectionOnMouseDown(p)

handleMouseMove(p) ==
    IF mouseHandler = "pencilMouseHandler"
    THEN PencilOnMouseMove(p)
    ELSE SelectionOnMouseMove(p)

handleMouseUp ==
    /\ button
    /\ IF mouseHandler = "pencilMouseHandler"
       THEN PencilOnMouseUp
       ELSE SelectionOnMouseUp

\* the stage with a listener that holds no notes
HostInit ==
    /\ Init
    /\ note = [x |-> 100, y |-> 0, width |-> 40, height |-> unitY]
    /\ notes = <<>>

HostNext ==
    \/ \E p \in SelectionPoints :
        \/ handleMouseDown(p)
        \/ handleMouseMove(p)
    \/ handleMouseUp
    \/ \E m \in {"pencil", "selection"} : SetMouseMode(m)

SpecHost == HostInit /\ [][HostNext]_vars

\* ------------------------------------------------------------------ what the claims expect
IsResize(e) == Len(e) = 1 /\ e[1].intent = "onResizeNote"

\* the bounds a drag of region `region` is to give note n with the pointer at p
ExpectedBounds(region, n, d, p) ==
    IF region = LEFT_EDGE
    THEN [x |-> roundX(p.x), y |-> n.y,
          width |-> n.width + n.x - roundX(p.x), height |-> n.height]
    ELSE IF region = RIGHT_EDGE
    THEN [x |-> n.x, y |-> n.y,
          width |-> roundX(p.x) - n.x, height |-> n.height]
    ELSE [x |-> roundX(p.x - d.x), y |-> roundY(p.y - d.y),
          width |-> n.width, height |-> n.height]

\* the step is a call of handler `op`
Did(op) == event' # None /\ event'.op = op

\* C1: the region type captured by onMouseDownNote stays what it was at pointer-down
\* through every later onPressMoveNote and hover onMouseMove of the drag, and every
\* onPressMoveNote computes its bounds from that captured region.
C1_RegionFixedForDrag ==
    [][ /\ (dragPosition' # None => dragPosition'.type = downRegion')
        /\ (Did("onPressMoveNote") \/ Did("PencilOnMouseMove")) => dragPosition' = dragPosition
        /\ (Did("onPressMoveNote") /\ dragPosition # None) =>
               emitted' = <<Intent("onResizeNote",
                                   ExpectedBounds(downRegion, note, dragPosition, event'.p))>>
      ]_vars

\* a LeftEdge drag has emitted a resize, and classifying the pointer-down offset against
\* the note's width as it is now would give another region
C1_Witness ==
    /\ dragPosition # None
    /\ dragPosition.type = LEFT_EDGE
    /\ IsResize(emitted)
    /\ getDragPositionType(dragPosition.x, note.width) # LEFT_EDGE

\* C2: in a LeftEdge drag every onPressMoveNote emits x = roundX(pointer x) and
\* width = old width + old x - x, and the note's right edge stays where it was at
\* pointer-down (the listener applying the bounds as emitted).
C2_LeftEdgeKeepsRightEdge ==
    [][ /\ (Did("onPressMoveNote") /\ dragPosition # None /\ dragPosition.type = LEFT_EDGE) =>
               /\ IsResize(emitted')
               /\ emitted'[1].arg.x = roundX(event'.p.x)
               /\ emitted'[1].arg.width = note.width + note.x - emitted'[1].arg.x
               /\ emitted'[1].arg.x + emitted'[1].arg.width = dragRight
               /\ (note = [x |-> 100, y |-> 0, width |-> 40, height |-> unitY]
                       /\ event'.p.x = 130) =>
                      emitted'[1].arg = [x |-> 130, y |-> 0, width |-> 10, height |-> unitY]
        /\ (dragPosition' # None /\ dragPosition'.type = LEFT_EDGE) =>
               note'.x + note'.width = dragRight'
      ]_vars

\* the example: the note {x:100, width:40} grabbed at offset 2 and moved to x = 130
C2_Witness ==
    /\ dragPosition # None
    /\ dragPosition.type = LEFT_EDGE
    /\ dragPosition.x = 2
    /\ dragRight = 140
    /\ event.op = "onPressMoveNote"
    /\ event.p.x = 130
    /\ emitted = <<Intent("onResizeNote", [x |-> 130, y |-> 0, width |-> 10, height |-> unitY])>>

\* C3: in a RightEdge drag every onPressMoveNote emits the note's x, y and height as they
\* were and width = roundX(pointer x) - x, wherever the pointer is.
C3_RightEdgeKeepsOrigin ==
    [][ (Did("onPressMoveNote") /\ dragPosition # None /\ dragPosition.type = RIGHT_EDGE) =>
           /\ IsResize(emitted')
           /\ emitted'[1].arg.x = note.x
           /\ emitted'[1].arg.y = note.y
           /\ emitted'[1].arg.height = note.height
           /\ emitted'[1].arg.width = roundX(event'.p.x) - note.x
      ]_vars

\* a RightEdge drag with the pointer left of the note's left edge
C3_Witness ==
    /\ dragPosition # None
    /\ dragPosition.type = RIGHT_EDGE
    /\ event.op = "onPressMoveNote"
    /\ IsResize(emitted)
    /\ event.p.x < note.x
    /\ emitted[1].arg.width < 0

IsIntent(e, name) == Len(e) = 1 /\ e[1].intent = name

\* the notes whose point lies within rectangle r
NotesWithin(r, ns) ==
    {i \in DOMAIN ns : /\ r.x <= ns[i].x /\ ns[i].x <= r.x + r.width
                       /\ r.y <= ns[i].y /\ ns[i].y <= r.y + r.height}

\* C4: a marquee gesture (pointer-down, one or more pointer-moves, pointer-up) emits
\* onSelectNotes exactly once from down through up, with the notes whose point lies
\* within the quantized rectangle the gesture spans (stated for a listener that holds
\* notes, the case in which the set says something).
C4_MarqueeSelectsOnce ==
    [][ (Did("SelectionOnMouseUp") /\ held /\ gesture.pointerMoves >= 1
             /\ ~selectionView.fixed /\ notes # <<>>) =>
           /\ gesture'.selects = 1
           /\ emitted' = <<Intent("onSelectNotes", [ids |-> NotesWithin(selectionRect, notes)])>>
      ]_vars

\* C5: every pointer-move while the pointer is held and the rectangle is fixed emits one
\* onMoveNotes with the selected notes and the delta (roundX(pointer x - dragOffset.x) -
\* rect.x, roundY(pointer y - dragOffset.y) - rect.y); the rectangle's origin moves by
\* that delta and its size stays.
C5_FixedDragMovesByDelta ==
    [][ (Did("SelectionOnMouseMove") /\ held /\ selectionView.fixed) =>
           LET d == [x |-> roundX(event'.p.x - dragOffset.x) - selectionView.x,
                     y |-> roundY(event'.p.y - dragOffset.y) - selectionView.y]
           IN  /\ emitted' = <<Intent("onMoveNotes", [ids |-> selectedNotes, delta |-> d])>>
               /\ selectionView'.x = selectionView.x + d.x
               /\ selectionView'.y = selectionView.y + d.y
               /\ selectionView'.width = selectionView.width
               /\ selectionView'.height = selectionView.height
      ]_vars

\* a fixed rectangle grabbed away from its origin and dragged to another grid position
C5_Witness ==
    /\ event # None
    /\ event.op = "SelectionOnMouseMove"
    /\ held
    /\ selectionView.fixed
    /\ dragOffset.x > 0
    /\ IsIntent(emitted, "onMoveNotes")
    /\ emitted[1].arg.delta.x # 0
    /\ emitted[1].arg.delta.y # 0

\* C6: a pointer-down inside a fixed rectangle followed directly by a pointer-up emits
\* exactly one onClickNotes, with the selected notes and the pointer-up event, and no
\* onSelectNotes or onMoveNotes; rectangle, flags and selected notes stay as they were.
C6_ClickThrough ==
    [][ /\ (Did("SelectionOnMouseDown") /\ selectionView.fixed
                /\ containsPoint(selectionRect, event'.p)) =>
               /\ emitted' = <<>>
               /\ selectionView' = selectionView
               /\ selectedNotes' = selectedNotes
        /\ (Did("SelectionOnMouseUp") /\ held /\ event.op = "SelectionOnMouseDown"
                /\ selectionView.fixed) =>
               /\ emitted' = <<Intent("onClickNotes", [ids |-> selectedNotes, e |-> event'])>>
               /\ gesture' = [selects |-> 0, moves |-> 0, clicks |-> 1, pointerMoves |-> 0]
               /\ selectionView' = selectionView
               /\ selectedNotes' = selectedNotes
      ]_vars

\* the pointer-up of a click on a fixed, visible rectangle of positive size
C6_Witness ==
    /\ event # None
    /\ event.op = "SelectionOnMouseUp"
    /\ IsIntent(emitted, "onClickNotes")
    /\ gesture = [selects |-> 0, moves |-> 0, clicks |-> 1, pointerMoves |-> 0]
    /\ selectionView.fixed
    /\ selectionView.visible
    /\ selectionView.width > 0

\* C7: the pointer-up of a gesture that had a pointer-move on an already fixed rectangle
\* emits no onClickNotes.
C7_NoClickAfterDrag ==
    [][ (Did("SelectionOnMouseUp") /\ held /\ selectionView.fixed
             /\ gesture.pointerMoves >= 1) =>
           ~IsIntent(emitted', "onClickNotes")
      ]_vars

\* C8: a pointer-move or pointer-up with isMouseDown false emits nothing, does not throw
\* and leaves rectangle, flags and selected notes as they were.
C8_StrayEventIsNoOp ==
    [][ ((Did("SelectionOnMouseMove") \/ Did("SelectionOnMouseUp")) /\ ~isMouseDown) =>
           /\ emitted' = <<>>
           /\ ~thrown'
           /\ selectionView' = selectionView
           /\ selectedNotes' = selectedNotes
      ]_vars

\* C9: a pointer-down on the container emits one onCreateNote with x = floorX(local x),
\* y = floorY(local y) and width = unitX and touches no drag session; a pointer-down on
\* anything else emits no onCreateNote.
C9_CreateOnContainer ==
    [][ Did("PencilOnMouseDown") =>
           /\ dragPosition' = dragPosition
           /\ ~HitNote(event'.p) =>
                  emitted' = <<Intent("onCreateNote",
                                      [x |-> floorX(event'.p.x),
                                       y |-> floorY(event'.p.y),
                                       width |-> unitX])>>
           /\ HitNote(event'.p) => emitted' = <<>>
           /\ (~HitNote(event'.p) /\ event'.p = [x |-> 23, y |-> 5]) =>
                  emitted' = <<Intent("onCreateNote", [x |-> 20, y |-> 0, width |-> 10])>>
      ]_vars

\* the example: the pointer-down at (23, 5) on the container
C9_Witness ==
    /\ event = [op |-> "PencilOnMouseDown", p |-> [x |-> 23, y |-> 5]]
    /\ emitted = <<Intent("onCreateNote", [x |-> 20, y |-> 0, width |-> 10])>>

\* C10 as stated: for every width, offset 0 is LeftEdge and offset w is RightEdge, and
\* for w >= 16 every offset strictly between 8 and w - 8 is Center.
C10_AllWidths ==
    classified # None =>
        LET w == classified.noteWidth
            o == classified.localX
            t == classified.type
        IN  /\ (o = 0 => t = LEFT_EDGE)
            /\ (o = w => t = RIGHT_EDGE)
            /\ (w >= 16 /\ 8 < o /\ o < w - 8 => t = CENTER)

\* C10 amended: the same for every width w > 0.
C10_PositiveWidths ==
    (classified # None /\ classified.noteWidth > 0) =>
        LET w == classified.noteWidth
            o == classified.localX
            t == classified.type
        IN  /\ (o = 0 => t = LEFT_EDGE)
            /\ (o = w => t = RIGHT_EDGE)
            /\ (w >= 16 /\ 8 < o /\ o < w - 8 => t = CENTER)

\* an offset just inside the middle of a wide note
C10_Witness ==
    /\ classified # None
    /\ classified.noteWidth = 30
    /\ classified.localX = 9
    /\ classified.type = CENTER

\* C11: an onPressMoveNote arriving while no drag session exists (no onMouseDownNote
\* came before it) does not throw, emits no onResizeNote and changes no state.
C11_PressMoveWithoutSessionIsNoOp ==
    [][ (Did("onPressMoveNote") /\ dragPosition = None) =>
           /\ ~thrown'
           /\ emitted' = <<>>
           /\ dragPosition' = dragPosition
           /\ note' = note
           /\ cursor' = cursor
      ]_vars

\* C12: with the events in order (down, moves, up), the rectangle is not fixed in any
\* state between a pointer-down outside it and the following pointer-up, and is fixed in
\* every state from a pointer-up until the next pointer-down outside it; a pointer-move
\* and a pointer-down inside the rectangle leave the fixed flag as it is.
C12_FixedFollowsCycle ==
    [][ /\ (Did("SelectionOnMouseDown") /\ ~containsPoint(selectionRect, event'.p)) =>
               ~selectionView'.fixed
        /\ (Did("SelectionOnMouseDown") /\ containsPoint(selectionRect, event'.p)) =>
               selectionView'.fixed = selectionView.fixed
        /\ Did("SelectionOnMouseMove") => selectionView'.fixed = selectionView.fixed
        /\ Did("SelectionOnMouseUp") => selectionView'.fixed
        \* the states in between: a gesture that began outside has sent its reset
        /\ (held' /\ gesture'.selects >= 1) => ~selectionView'.fixed
        /\ (~held' /\ gesture' # None) => selectionView'.fixed
      ]_vars

\* a marquee begun outside the rectangle, drawn, and committed by its pointer-up
C12_Witness ==
    /\ event # None
    /\ event.op = "SelectionOnMouseUp"
    /\ gesture # None
    /\ gesture.selects >= 1
    /\ gesture.pointerMoves = 1
    /\ selectionView.fixed
    /\ selectionView.visible
    /\ start.x > 0

\* C13: in every reachable state the rectangle's flags are one of Empty (invisible,
\* unfixed), Marquee (visible, unfixed) and Fixed (visible, fixed): it is never fixed
\* while invisible.
C13_ThreeFlagStates ==
    selectionView.fixed => selectionView.visible

\* C14: a pointer-down outside the current rectangle, fixed or not, leaves the rectangle
\* unfixed, invisible, of width 0 and height 0 with its origin at the down point, emits
\* exactly one onSelectNotes with the empty set, and records dragOffset (0, 0).
C14_DownOutsideResets ==
    [][ (Did("SelectionOnMouseDown") /\ ~containsPoint(selectionRect, event'.p)) =>
           /\ selectionView' = [x |-> event'.p.x, y |-> event'.p.y, width |-> 0, height |-> 0,
                                fixed |-> FALSE, visible |-> FALSE]
           /\ emitted' = <<Intent("onSelectNotes", [ids |-> {}])>>
           /\ dragOffset' = [x |-> 0, y |-> 0]
           /\ ~thrown'
      ]_vars

\* the pointer-down that reset the rectangle to a point away from the origin
C14_Witness ==
    /\ event # None
    /\ event.op = "SelectionOnMouseDown"
    /\ event.p.x > 0
    /\ event.p.y > 0
    /\ emitted = <<Intent("onSelectNotes", [ids |-> {}])>>
    /\ selectionView = [x |-> event.p.x, y |-> event.p.y, width |-> 0, height |-> 0,
                        fixed |-> FALSE, visible |-> FALSE]
    /\ dragOffset = [x |-> 0, y |-> 0]

\* C15: after every pointer-move while the pointer is held and the rectangle is not
\* fixed, the rectangle has width > 0 and height > 0 (a span that quantizes to zero is
\* replaced by unitX / unitY) and its origin is (roundX, roundY) of the top-left corner
\* of the span between the down point and the pointer, whichever way the drag goes.
C15_MarqueeNeverDegenerate ==
    [][ (Did("SelectionOnMouseMove") /\ held /\ ~selectionView.fixed) =>
           LET left == Min(start.x, event'.p.x)
               top == Min(start.y, event'.p.y)
               spanX == roundX(left + Abs(start.x - event'.p.x)) - roundX(left)
               spanY == roundY(top + Abs(start.y - event'.p.y)) - roundY(top)
           IN  /\ selectionView'.width > 0
               /\ selectionView'.height > 0
               /\ selectionView'.x = roundX(left)
               /\ selectionView'.y = roundY(top)
               /\ selectionView'.width = (IF spanX = 0 THEN unitX ELSE spanX)
               /\ selectionView'.height = (IF spanY = 0 THEN unitY ELSE spanY)
      ]_vars

\* a marquee dragged to the left along one row: the height collapsed and is unitY
C15_Witness ==
    /\ event # None
    /\ event.op = "SelectionOnMouseMove"
    /\ held
    /\ ~selectionView.fixed
    /\ event.p.x < start.x
    /\ event.p.y = start.y
    /\ selectionView.x = roundX(event.p.x)
    /\ selectionView.width > unitX
    /\ selectionView.height = unitY

C17_SessionDiscardedAtPointerUp ==
    [][ (Did("PencilOnMouseUp") /\ dragPosition # None) => dragPosition' = None ]_vars

\* C18: for every width w > 0 and offset o with 0 <= o <= w the two edge conditions
\* o <= edgeSize and w - o <= edgeSize (edgeSize = min(w / 3, 8)) are never both true,
\* and whenever both are true the result is LeftEdge.
C18_EdgesNeverOverlap ==
    classified # None =>
        LET w == classified.noteWidth
            o == classified.localX
            both == LeEdgeSize(o, w) /\ LeEdgeSize(w - o, w)
        IN  /\ (w > 0 => ~both)
            /\ (both => classified.type = LEFT_EDGE)

\* the one input in range for which both conditions hold: width 0, offset 0
C18_Witness ==
    /\ classified # None
    /\ LeEdgeSize(classified.localX, classified.noteWidth)
    /\ LeEdgeSize(classified.noteWidth - classified.localX, classified.noteWidth)
    /\ classified.type = LEFT_EDGE

\* C19: after any sequence of pointer-down, pointer-move and pointer-up events, every
\* onMoveNotes and every onClickNotes carries exactly the id set of the most recent
\* onSelectNotes, which is the handler's selectedNotes.
C19_NoStaleSelection ==
    [][ ((IsIntent(emitted', "onMoveNotes") \/ IsIntent(emitted', "onClickNotes"))
             /\ lastSelect # None) =>
           /\ [ids |-> emitted'[1].arg.ids] = lastSelect
           /\ emitted'[1].arg.ids = selectedNotes
      ]_vars

\* notes moved with a fixed rectangle after an onSelectNotes has told the listener the
\* selection, the listener holding notes
C19_Witness ==
    /\ IsIntent(emitted, "onMoveNotes")
    /\ lastSelect # None
    /\ lastSelect = [ids |-> emitted[1].arg.ids]
    /\ notes # <<>>
    /\ selectionView.fixed

\* C20: with each event sent to the handler of the current mode and the mode changing
\* between any two events, isMouseDown of the selection tool is true only while the
\* button is down: a pointer-move sent to the selection tool while no button is held
\* does not change the rectangle and emits no onMoveNotes.
C20_HeldFlagFollowsButton ==
    [][ (Did("SelectionOnMouseMove") /\ ~button) =>
           /\ ~isMouseDown
           /\ selectionView' = selectionView
           /\ ~IsIntent(emitted', "onMoveNotes")
      ]_vars

====
